---- MODULE Spec2Model ----
(***************************************************************************)
(* Model of the flash-sale service: the Redis tier (internal/cache), the   *)
(* HTTP handlers (internal/server), the sale rotator (internal/sale) and   *)
(* the PostgreSQL purchase log (internal/database).                        *)
(*                                                                         *)
(* Time is a discrete clock `now`.  A Redis or SQL call is one atomic step *)
(* at the server; a call may fail, and a failed call has no effect at the  *)
(* server.  Each request handler is a process that moves from one remote   *)
(* call to the next.  The specifications at the end each schedule a part  *)
(* of the system (handlers, clock, finalizers and loggers, rotator) and    *)
(* explore every interleaving of that part.                                *)
(***************************************************************************)
EXTENDS Integers, Sequences, FiniteSets, TLC

\* ------------------------------------------------------------------------
\* Bounds (scaled-down program quantities and model horizons)
\* ------------------------------------------------------------------------
\* total items per sale; 10000 in manager.go:123, scaled down
TotalItems == 2
\* per-user limit passed to the Lua script; 10 in redis.go:159, scaled down
MaxPerUser == 1
\* codeExpiryTime (5 minutes, redis.go:18) in clock ticks
CodeTTL == 1
\* ticker period / sale length (1 hour, manager.go:64 and :98) in clock ticks
SaleDuration == 2
\* extra life of the sale keys beyond the hour (10 minutes, redis.go:116)
KeyGrace == 1
\* last clock value explored
MaxTime == 3
\* number of reservation codes that may be stored over a run
MaxCodes == 3
\* requests a user may send per minute; 100 in middleware.go:26, scaled down
RateLimit == 1
\* invocations of RunMigrations explored (one per start of the process)
MaxRuns == 3
\* requests counted by the metrics service over a run
MaxRequests == 4

KeyTTL == SaleDuration + KeyGrace

Users == {"alice", "bob"}
\* request slots, taken in this order
ProcOrder == <<"p1", "p2">>
Procs == {ProcOrder[k] : k \in 1..Len(ProcOrder)}
SaleIds == 1..MaxTime
CodeIds == 1..MaxCodes
\* a code value no checkout ever produced
Bogus == MaxCodes + 1

\* ------------------------------------------------------------------------
\* item_id strings.  An item_id is a sequence of tokens: the delimiter
\* "_item_", a run of decimal digits (kept as the integer Atoi gives), or
\* any other text.
\* ------------------------------------------------------------------------
Delim == [t |-> "delim", v |-> 0]
Num(n) == [t |-> "int", v |-> n]
Txt == [t |-> "text", v |-> 0]

\* "sale_X_item_000001", and the bare number the load test sends
ItemGood == <<Txt, Delim, Num(1)>>
ItemBare == <<Num(2)>>
ItemIds == {ItemGood, ItemBare}
\* ids a client may send: the delimiter twice, a suffix that is no number,
\* a suffix that is not positive
ItemTwice == <<Txt, Delim, Txt, Delim, Num(2)>>
ItemWord == <<Txt, Delim, Txt>>
ItemZero == <<Txt, Delim, Num(0)>>
\* who sends which
ItemOrders ==
    ({"alice"} \X {ItemGood, ItemTwice, ItemBare})
        \cup ({"bob"} \X {ItemWord, ItemZero})
NoItem == <<>>

RECURSIVE SplitAt(_, _)
\* strings.Split(s, "_item_"): the parts between the delimiters
SplitAt(s, acc) ==
    IF s = <<>> THEN <<acc>>
    ELSE IF Head(s) = Delim THEN <<acc>> \o SplitAt(Tail(s), <<>>)
    ELSE SplitAt(Tail(s), Append(acc, Head(s)))

Split(s) == SplitAt(s, <<>>)

\* strconv.Atoi succeeds exactly on a single run of digits
AtoiOk(part) == Len(part) = 1 /\ part[1].t = "int"
Atoi(part) == part[1].v

\* the bit offset the finalizer sets for an item_id, or -1 when it sets none
SoldBitOffset(item) ==
    LET parts == Split(item) IN
    IF Len(parts) = 2 /\ AtoiOk(parts[2]) /\ Atoi(parts[2]) > 0
    THEN Atoi(parts[2]) - 1
    ELSE -1

\* ------------------------------------------------------------------------
\* State
\* ------------------------------------------------------------------------
VARIABLES
    now,            \* wall clock
    active,         \* Manager.active: current sale id, 0 when nil
    rot,            \* the rotator goroutine: position, sale id, ticker
    dbSales,        \* sales table: set of sale_id
    dbItems,        \* items table: sale ids whose item rows exist
    inventory,      \* sale:<id>:inventory keys
    userPurchases,  \* sale:<id>:user_purchases hashes
    soldBitmap,     \* sale:<id>:sold_bitmap bit sets
    codeStore,      \* checkout_code:<hex> keys
    nextCode,       \* next fresh code value
    req,            \* request handlers in flight
    last,           \* the response just written, until the client has it
    workers,        \* finalizers started by purchaseHandler, not yet finished
    loggers,        \* codes whose LogCheckoutAttempt goroutine has yet to run
    dbPurchases,    \* purchases table: number of rows per sale
    dbAttempts,     \* checkout_attempts table: per code, the row's status
    showcase,       \* sale:<id>:showcase_ids keys
    saleActive,     \* sale:<id>:active keys
    codeExp,        \* history: expires_at of every code stored
    codeFor,        \* history: the user_id, id and sale of the checkout
                    \* that was answered with the code
    reserved,       \* history: per sale, has a script returned "success"
    okPurchases,    \* history: per sale, purchase requests answered 200
    okByCode,       \* history: per code, purchase requests answered 200
    lostInserts,    \* history: per sale, CreatePurchase calls that failed
    migrator,       \* RunMigrations: position, files to go, open transaction
    schemaMigrations, \* schema_migrations table: set of version
    appliedFiles,   \* the files whose statements are committed, in order
    metrics         \* the counters of the metrics service

vars == <<now, active, rot, dbSales, dbItems, inventory, userPurchases,
          soldBitmap, codeStore, nextCode, req, last, workers, loggers,
          dbPurchases, dbAttempts, showcase, saleActive, codeExp, codeFor,
          reserved, okPurchases, okByCode, lostInserts, migrator,
          schemaMigrations, appliedFiles, metrics>>

redisSale == <<inventory, userPurchases, soldBitmap>>
rotVars == <<active, rot, dbSales, dbItems, showcase, saleActive>>
db == <<dbPurchases, dbAttempts, loggers>>
migVars == <<migrator, schemaMigrations, appliedFiles>>
hist == <<codeExp, codeFor, reserved, okPurchases, okByCode, lostInserts>>

\* ------------------------------------------------------------------------
\* Redis keys
\* ------------------------------------------------------------------------
\* an absent key
NoKey == [present |-> FALSE, val |-> 0, dl |-> 0]
\* a key with value v that expires at time d (d = 0: no expiry)
Key(v, d) == [present |-> TRUE, val |-> v, dl |-> d]

NoRec == [present |-> FALSE, user |-> "", item |-> NoItem, sale |-> 0,
          exp |-> 0, dl |-> 0]

\* DECR / INCR on an integer key: a missing key counts as 0 and the key
\* keeps its expiry (none when the command creates it)
IncrBy(k, d) == IF k.present THEN Key(k.val + d, k.dl) ELSE Key(d, 0)


\* a script without the "remaining < 0" test
LuaReserveNoSoldOut(invKey, userCount) ==
    IF userCount >= MaxPerUser
    THEN [status |-> "user_limit_exceeded", inv |-> invKey]
    ELSE [status |-> "success", inv |-> IncrBy(invKey, -1)]

\* a script that tests the counter but leaves out the DECR
LuaReserveNoDecr(invKey, userCount) ==
    IF userCount >= MaxPerUser
    THEN [status |-> "user_limit_exceeded", inv |-> invKey]
    ELSE IF IncrBy(invKey, 0).val <= 0
         THEN [status |-> "sold_out", inv |-> IncrBy(invKey, 0)]
         ELSE [status |-> "success", inv |-> invKey]

\* a script that does not INCR back after an overshoot
LuaReserveNoIncrBack(invKey, userCount) ==
    IF userCount >= MaxPerUser
    THEN [status |-> "user_limit_exceeded", inv |-> invKey]
    ELSE LET dec == IncrBy(invKey, -1) IN
         IF dec.val < 0
         THEN [status |-> "sold_out", inv |-> dec]
         ELSE [status |-> "success", inv |-> dec]

\* a script that takes the unit before it looks at the user's count
LuaReserveDecrFirst(invKey, userCount) ==
    LET dec == IncrBy(invKey, -1) IN
    IF userCount >= MaxPerUser
    THEN [status |-> "user_limit_exceeded", inv |-> dec]
    ELSE IF dec.val < 0
         THEN [status |-> "sold_out", inv |-> IncrBy(dec, 1)]
         ELSE [status |-> "success", inv |-> dec]

\* the reservation script of ReserveItem, run atomically by Redis:
\* user-limit check, DECR, INCR back on overshoot
LuaReserve(invKey, userCount) ==
    IF userCount >= MaxPerUser
    THEN [status |-> "user_limit_exceeded", inv |-> invKey]
    ELSE LET dec == IncrBy(invKey, -1) IN
         IF dec.val < 0
         THEN [status |-> "sold_out", inv |-> IncrBy(dec, 1)]
         ELSE [status |-> "success", inv |-> dec]

\* a GET that leaves the key in place
GetNoDel(rec) == [data |-> rec, after |-> rec]

\* GETDEL checkout_code:<code>: the value read and the key's state after it
GetDel(rec) == [data |-> rec, after |-> NoRec]

\* no expires_at check
AfterNever(t, expiresAt) == FALSE

\* time.Now().After(expires_at)
After(t, expiresAt) == t > expiresAt

\* the keys a clock value leaves alive
Unexpired(k, t) == IF k.present /\ k.dl # 0 /\ k.dl <= t THEN NoKey ELSE k
UnexpiredRec(r, t) == IF r.present /\ r.dl <= t THEN NoRec ELSE r

\* ------------------------------------------------------------------------
\* Request handlers
\* ------------------------------------------------------------------------
Idle == [pc |-> "idle", op |-> "none", user |-> "", item |-> NoItem,
         sale |-> 0, code |-> 0, exp |-> 0, late |-> FALSE, status |-> 0]

\* the response a handler writes: the status and, with 200, the fields of
\* the body; `at` is the handler's position when it answered, `fault` tells
\* that a store call of the request returned a transport error, and
\* `remaining` and `sold` are the counts in the body of /sale/status,
\* `start` and `ends` the times in the body of /sale/current
Response(r, st) ==
    IF st = 200
    THEN [op |-> r.op, at |-> r.pc, status |-> st, code |-> r.code,
          late |-> r.late, user |-> r.user, item |-> r.item, sale |-> r.sale,
          fault |-> FALSE, remaining |-> 0, sold |-> 0,
          start |-> 0, ends |-> 0]
    ELSE [op |-> r.op, at |-> r.pc, status |-> st, code |-> r.code,
          late |-> r.late, user |-> "", item |-> NoItem, sale |-> 0,
          fault |-> FALSE, remaining |-> 0, sold |-> 0,
          start |-> 0, ends |-> 0]

\* the response to a request one of whose store calls failed
Faulted(resp) == [resp EXCEPT !.fault = TRUE]

NoResponse == [op |-> "none", at |-> "idle", status |-> 0, code |-> 0,
               late |-> FALSE, user |-> "", item |-> NoItem, sale |-> 0,
               fault |-> FALSE, remaining |-> 0, sold |-> 0,
          start |-> 0, ends |-> 0]

\* what is on record for a code no checkout was answered with
NoCheckout == [user |-> "", item |-> NoItem, sale |-> 0]

\* a new request takes the first free slot
FirstFree(p) ==
    \E k \in 1..Len(ProcOrder) :
        /\ ProcOrder[k] = p
        /\ req[p].pc = "idle"
        /\ \A j \in 1..(k - 1) : req[ProcOrder[j]].pc # "idle"

InFlight(p) == req[p].pc # "idle"

\* the codes checkout responses have carried so far
Issued == 1..(nextCode - 1)

\* codes that are stored or may still be stored by a checkout in flight
CodesClaimed == (nextCode - 1) + Cardinality({p \in Procs : req[p].op = "checkout" /\ InFlight(p)})

\* checkoutHandler up to the read of the current-sale pointer
CheckoutStart(p, u, i) ==
    /\ FirstFree(p)
    /\ CodesClaimed < MaxCodes
    /\ LET r == [Idle EXCEPT !.op = "checkout", !.user = u, !.item = i] IN
       IF u = "" \/ i = NoItem THEN
            /\ last' = Response(r, 400)
            /\ UNCHANGED req
       ELSE IF active = 0 THEN
            /\ last' = Response(r, 503)
            /\ UNCHANGED req
       ELSE /\ req' = [req EXCEPT ![p] =
                         [r EXCEPT !.pc = "co_script", !.sale = active]]
            /\ UNCHANGED last
    /\ UNCHANGED <<migVars, now,
                   rotVars, redisSale, codeStore, nextCode, workers,
                   db, hist>>

\* ReserveItem: the error returned for the script's result ("" is nil)
ReserveError(status) ==
    IF status = "user_limit_exceeded" THEN "user limit exceeded"
    ELSE IF status = "sold_out" THEN "sold out"
    ELSE ""

\* a handler that answers every reserve error alike
CheckoutStatusInternal(err) == 500

\* checkoutHandler: the status it answers a reserve error with
CheckoutStatus(err) ==
    IF err = "sold out" THEN 409
    ELSE IF err = "user limit exceeded" THEN 403
    ELSE 500

\* ReserveItem: the Eval of the Lua script, and the code record built from
\* its result
CheckoutScript(p, fails) ==
    /\ req[p].pc = "co_script"
    /\ LET s == req[p].sale
           u == req[p].user
           res == LuaReserve(inventory[s], userPurchases[s][u])
       IN
       IF fails THEN
            /\ req' = [req EXCEPT ![p] = Idle]
            /\ last' = Faulted(Response(req[p], CheckoutStatus("eval")))
            /\ UNCHANGED <<inventory, reserved>>
       ELSE
            /\ inventory' = [inventory EXCEPT ![s] = res.inv]
            /\ IF res.status = "user_limit_exceeded" THEN
                    /\ req' = [req EXCEPT ![p] = Idle]
                    /\ last' = Response(req[p],
                                        CheckoutStatus(ReserveError(res.status)))
                    /\ UNCHANGED reserved
               ELSE IF res.status = "sold_out" THEN
                    /\ req' = [req EXCEPT ![p] = Idle]
                    /\ last' = Response(req[p],
                                        CheckoutStatus(ReserveError(res.status)))
                    /\ UNCHANGED reserved
               ELSE /\ req' = [req EXCEPT ![p] =
                                 [@ EXCEPT !.pc = "co_set",
                                           !.exp = now + CodeTTL]]
                    /\ reserved' = [reserved EXCEPT ![s] = TRUE]
                    /\ UNCHANGED last
    /\ UNCHANGED <<migVars, now, rotVars, userPurchases, soldBitmap, codeStore,
                   nextCode, workers, db, codeExp, codeFor, okPurchases,
                   okByCode, lostInserts>>

\* ReserveItem: SET checkout_code:<code> with the TTL; then checkoutHandler
\* starts the goroutine that logs the attempt, and answers
CheckoutSetCode(p, fails) ==
    /\ req[p].pc = "co_set"
    /\ IF fails THEN
            /\ req' = [req EXCEPT ![p].pc = "co_comp"]
            /\ UNCHANGED <<codeStore, nextCode, codeExp, codeFor, last,
                           loggers>>
       ELSE LET c == nextCode IN
            /\ codeStore' = [codeStore EXCEPT ![c] =
                              [present |-> TRUE, user |-> req[p].user,
                               item |-> req[p].item, sale |-> req[p].sale,
                               exp |-> req[p].exp, dl |-> now + CodeTTL]]
            /\ nextCode' = nextCode + 1
            /\ codeExp' = [codeExp EXCEPT ![c] = req[p].exp]
            /\ codeFor' = [codeFor EXCEPT ![c] =
                             [user |-> req[p].user, item |-> req[p].item,
                              sale |-> req[p].sale]]
            /\ loggers' = loggers \cup {c}
            /\ req' = [req EXCEPT ![p] = Idle]
            /\ last' = Response([req[p] EXCEPT !.code = c], 200)
    /\ UNCHANGED <<migVars, now,
                   rotVars, redisSale, workers, dbPurchases, dbAttempts,
                   reserved, okPurchases, okByCode, lostInserts>>

\* a compensation that gives back two units
CompensateTwice(invKey, fails) == IF fails THEN invKey ELSE IncrBy(invKey, 2)

\* the compensating INCR after a failed code write
Compensate(invKey, fails) == IF fails THEN invKey ELSE IncrBy(invKey, 1)

\* ReserveItem: the compensation, whose result is not looked at
CheckoutCompensate(p, fails) ==
    /\ req[p].pc = "co_comp"
    /\ LET s == req[p].sale IN
       inventory' = [inventory EXCEPT ![s] = Compensate(@, fails)]
    /\ req' = [req EXCEPT ![p] = Idle]
    /\ last' = Faulted(Response(req[p], CheckoutStatus("set")))
    /\ UNCHANGED <<migVars, now, rotVars, userPurchases, soldBitmap, codeStore,
                   nextCode, workers, db, hist>>

\* purchaseHandler up to the call of VerifyAndPurchase
PurchaseStart(p, c) ==
    /\ FirstFree(p)
    /\ LET r == [Idle EXCEPT !.op = "purchase", !.code = c] IN
       IF c = 0 THEN
            /\ last' = Response(r, 400)
            /\ UNCHANGED req
       ELSE /\ req' = [req EXCEPT ![p] =
                         [r EXCEPT !.pc = "pu_verify",
                                   !.late = (c \in CodeIds /\ codeExp[c] # 0
                                             /\ now > codeExp[c])]]
            /\ UNCHANGED last
    /\ UNCHANGED <<migVars, now,
                   rotVars, redisSale, codeStore, nextCode, workers,
                   db, hist>>

\* a response that names the sale that is current at the purchase
SaleOfPurchaseCurrent(rec, current) == current

\* the sale_id of the purchase response: the one in the code's record
SaleOfPurchase(rec, current) == rec.sale

\* VerifyAndPurchase: GETDEL, then the expires_at check
PurchaseVerify(p, fails) ==
    /\ req[p].pc = "pu_verify"
    /\ LET c == req[p].code
           rec == IF c \in CodeIds THEN codeStore[c] ELSE NoRec
           got == GetDel(rec)
       IN
       IF fails THEN
            /\ req' = [req EXCEPT ![p] = Idle]
            /\ last' = Faulted(Response(req[p], 400))
            /\ UNCHANGED codeStore
       ELSE
            /\ codeStore' = IF c \in CodeIds
                            THEN [codeStore EXCEPT ![c] = got.after]
                            ELSE codeStore
            /\ IF ~got.data.present \/ After(now, got.data.exp) THEN
                    /\ req' = [req EXCEPT ![p] = Idle]
                    /\ last' = Response(req[p], 400)
               ELSE /\ req' = [req EXCEPT ![p] =
                                 [@ EXCEPT !.pc = "pu_inc",
                                           !.user = got.data.user,
                                           !.item = got.data.item,
                                           !.sale = SaleOfPurchase(got.data,
                                                                   active)]]
                    /\ UNCHANGED last
    /\ UNCHANGED <<migVars, now, rotVars, redisSale, nextCode, workers, db,
                   hist>>

\* an HINCRBY that reaches the hash although the call returns an error
IncrementUserPurchaseAnyway(count, fails) == count + 1

\* IncrementUserPurchase: HINCRBY user_purchases <user> 1
IncrementUserPurchase(count, fails) == IF fails THEN count ELSE count + 1

\* purchaseHandler: IncrementUserPurchase, the start of the finalizer and
\* the response
PurchaseIncr(p, fails) ==
    /\ req[p].pc = "pu_inc"
    /\ LET s == req[p].sale
           u == req[p].user
           c == req[p].code
       IN
       /\ userPurchases' = [userPurchases EXCEPT ![s][u] =
                               IncrementUserPurchase(@, fails)]
       /\ IF fails THEN
            /\ req' = [req EXCEPT ![p] = Idle]
            /\ last' = Faulted(Response(req[p], 500))
            /\ UNCHANGED <<workers, okPurchases, okByCode>>
          ELSE
            /\ workers' = workers \cup
                    {[pc |-> "mark", sale |-> s, user |-> u,
                      item |-> req[p].item, code |-> c]}
            /\ okPurchases' = [okPurchases EXCEPT ![s] = @ + 1]
            /\ okByCode' = [okByCode EXCEPT ![c] = @ + 1]
            /\ req' = [req EXCEPT ![p] = Idle]
            /\ last' = Response(req[p], 200)
    /\ UNCHANGED <<migVars, now,
                   rotVars, inventory, soldBitmap, codeStore, nextCode,
                   db, codeExp, codeFor, reserved, lostInserts>>

\* a snapshot whose end_time is its start_time
ActiveSaleNoLength(id) == [SaleID |-> id, StartTime |-> id, EndTime |-> id]

\* the ActiveSale startNewSale builds for the sale it opened at time id (the
\* sale id is the Unix time of the same clock reading): SaleID, StartTime,
\* EndTime = StartTime + 1h
ActiveSale(id) ==
    [SaleID |-> id, StartTime |-> id, EndTime |-> id + SaleDuration]

\* currentSaleHandler: GetCurrentSale and the response; it calls no store
CurrentSale ==
    /\ LET r == [Idle EXCEPT !.op = "current"] IN
       IF active = 0 THEN last' = Response(r, 404)
       ELSE last' = [Response(r, 200) EXCEPT
                        !.sale = ActiveSale(active).SaleID,
                        !.start = ActiveSale(active).StartTime,
                        !.ends = ActiveSale(active).EndTime]
    /\ UNCHANGED <<migVars, now,
                   rotVars, redisSale, codeStore, nextCode, req, workers,
                   db, hist>>

\* what the client has of a request whose handler panicked: the handler
\* chain of RegisterRoutes is corsMiddleware(mux), so the panic unwinds into
\* net/http, which logs it and closes the connection; there is no status
Aborted(r) == [NoResponse EXCEPT !.op = r.op, !.at = r.pc, !.code = r.code]

\* a handler in flight panics between two of its calls
HandlerPanic(p) ==
    /\ InFlight(p)
    /\ req' = [req EXCEPT ![p] = Idle]
    /\ last' = Aborted(req[p])
    /\ UNCHANGED <<migVars, now,
                   rotVars, redisSale, codeStore, nextCode, workers,
                   db, hist>>

\* saleStatusHandler up to the call of GetInventoryStatus
StatusStart(p) ==
    /\ FirstFree(p)
    /\ LET r == [Idle EXCEPT !.op = "status"] IN
       IF active = 0 THEN
            /\ last' = Response(r, 404)
            /\ UNCHANGED req
       ELSE /\ req' = [req EXCEPT ![p] =
                         [r EXCEPT !.pc = "st_get", !.sale = active]]
            /\ UNCHANGED last
    /\ UNCHANGED <<migVars, now,
                   rotVars, redisSale, codeStore, nextCode, workers,
                   db, hist>>

\* GetInventoryStatus: GET of the inventory key; redis.Nil reads as 0
GetInventoryStatus(invKey, fails) ==
    IF fails THEN [val |-> 0, err |-> TRUE]
    ELSE IF ~invKey.present THEN [val |-> 0, err |-> FALSE]
    ELSE [val |-> invKey.val, err |-> FALSE]

\* saleStatusHandler: remaining_items, -1 when the read failed
RemainingItems(got) == IF got.err THEN -1 ELSE got.val

\* saleStatusHandler: items_sold
ItemsSold(remaining) == TotalItems - remaining

\* saleStatusHandler: GetInventoryStatus and the response
StatusGet(p, fails) ==
    /\ req[p].pc = "st_get"
    /\ LET got == GetInventoryStatus(inventory[req[p].sale], fails)
           remaining == RemainingItems(got)
           resp == [Response(req[p], 200) EXCEPT
                        !.sale = req[p].sale,
                        !.remaining = remaining,
                        !.sold = ItemsSold(remaining)]
       IN  last' = IF got.err THEN Faulted(resp) ELSE resp
    /\ req' = [req EXCEPT ![p] = Idle]
    /\ UNCHANGED <<migVars, now,
                   rotVars, redisSale, codeStore, nextCode, workers,
                   db, hist>>

\* ------------------------------------------------------------------------
\* The metrics service and the handlers' calls of it
\* ------------------------------------------------------------------------
\* metrics.New(): all counters 0
NoMetrics ==
    [CheckoutRequests |-> 0, CheckoutSuccess |-> 0, CheckoutFailed |-> 0,
     PurchaseRequests |-> 0, PurchaseSuccess |-> 0, PurchaseFailed |-> 0,
     SoldOutErrors |-> 0, UserLimitErrors |-> 0, CodeInvalidErrors |-> 0,
     TotalItemsSold |-> 0]

\* atomic.AddInt64(&m.<counter>, 1) for each counter of the set
Increment(m, counters) ==
    [k \in DOMAIN m |-> IF k \in counters THEN m[k] + 1 ELSE m[k]]

\* the requests counted so far
Counted == metrics.CheckoutRequests + metrics.PurchaseRequests

\* a handler that counts a refused reservation as an error of its kind only
CheckoutErrorCountersKindOnly(err) ==
    IF err = "sold out" THEN {"SoldOutErrors"}
    ELSE IF err = "user limit exceeded" THEN {"UserLimitErrors"}
    ELSE {"CheckoutFailed"}

\* checkoutHandler: the counters it increments for an error of ReserveItem
CheckoutErrorCounters(err) ==
    {"CheckoutFailed"} \cup
        (IF err = "sold out" THEN {"SoldOutErrors"}
         ELSE IF err = "user limit exceeded" THEN {"UserLimitErrors"}
         ELSE {})

\* checkoutHandler with its counters, up to the read of the pointer:
\* IncrementCheckoutRequests, and IncrementCheckoutFailed with 400 or 503
CheckoutStartCounted(p, u, i) ==
    /\ Counted < MaxRequests
    /\ CheckoutStart(p, u, i)
    /\ metrics' = Increment(metrics,
                            {"CheckoutRequests"} \cup
                            (IF InFlight(p)' THEN {} ELSE {"CheckoutFailed"}))

\* the Eval step with the counters of a refused or failed reservation
CheckoutScriptCounted(p, fails) ==
    /\ CheckoutScript(p, fails)
    /\ LET res == LuaReserve(inventory[req[p].sale],
                             userPurchases[req[p].sale][req[p].user])
           err == IF fails THEN "eval" ELSE ReserveError(res.status)
       IN  metrics' = IF err = "" THEN metrics
                      ELSE Increment(metrics, CheckoutErrorCounters(err))

\* the code write; IncrementCheckoutSuccess when ReserveItem returned a code
CheckoutSetCodeCounted(p, fails) ==
    /\ CheckoutSetCode(p, fails)
    /\ metrics' = IF fails THEN metrics
                  ELSE Increment(metrics, {"CheckoutSuccess"})

\* the compensation, after which ReserveItem returns the error of the write
CheckoutCompensateCounted(p, fails) ==
    /\ CheckoutCompensate(p, fails)
    /\ metrics' = Increment(metrics, CheckoutErrorCounters("set"))

\* purchaseHandler with its counters, up to VerifyAndPurchase:
\* IncrementPurchaseRequests, and IncrementPurchaseFailed with 400
PurchaseStartCounted(p, c) ==
    /\ Counted < MaxRequests
    /\ PurchaseStart(p, c)
    /\ metrics' = Increment(metrics,
                            {"PurchaseRequests"} \cup
                            (IF InFlight(p)' THEN {} ELSE {"PurchaseFailed"}))

\* VerifyAndPurchase; an error counts as failed and as an invalid code
PurchaseVerifyCounted(p, fails) ==
    /\ PurchaseVerify(p, fails)
    /\ metrics' = IF InFlight(p)' THEN metrics
                  ELSE Increment(metrics,
                                 {"PurchaseFailed", "CodeInvalidErrors"})

\* IncrementUserPurchase; an error counts as failed, success as a purchase
\* and as an item sold
PurchaseIncrCounted(p, fails) ==
    /\ PurchaseIncr(p, fails)
    /\ metrics' = IF fails THEN Increment(metrics, {"PurchaseFailed"})
                  ELSE Increment(metrics,
                                 {"PurchaseSuccess", "TotalItemsSold"})

\* ------------------------------------------------------------------------
\* The asynchronous finalizer started by purchaseHandler
\* ------------------------------------------------------------------------
\* a MarkItemAsSold that sets the first bit for a number it cannot use
MarkItemAsSoldAlways(bits, off) ==
    IF off >= 0 THEN bits \cup {off} ELSE bits \cup {0}

\* MarkItemAsSold: SETBIT at itemNumber - 1, refused for itemNumber <= 0
MarkItemAsSold(bits, off) == IF off >= 0 THEN bits \cup {off} ELSE bits

\* a finalizer that sets the bit in the bitmap of the sale that is current
\* when it runs
WorkerMarkCurrent(w, fails) ==
    /\ w \in workers
    /\ w.pc = "mark"
    /\ soldBitmap' = [soldBitmap EXCEPT ![IF active = 0 THEN w.sale ELSE active] =
                        IF fails THEN @
                        ELSE MarkItemAsSold(@, SoldBitOffset(w.item))]
    /\ workers' = (workers \ {w}) \cup {[w EXCEPT !.pc = "log"]}
    /\ UNCHANGED <<migVars, now, rotVars, inventory, userPurchases, codeStore,
                   nextCode, req, last, db, hist>>

\* the item-number parse and MarkItemAsSold
WorkerMark(w, fails) ==
    /\ w \in workers
    /\ w.pc = "mark"
    /\ soldBitmap' = [soldBitmap EXCEPT ![w.sale] =
                        IF fails THEN @
                        ELSE MarkItemAsSold(@, SoldBitOffset(w.item))]
    /\ workers' = (workers \ {w}) \cup {[w EXCEPT !.pc = "log"]}
    /\ UNCHANGED <<migVars, now, rotVars, inventory, userPurchases, codeStore,
                   nextCode, req, last, db, hist>>

\* an insert that is sent a second time after it succeeded
CreatePurchaseTwice(rows, fails) == IF fails THEN rows ELSE rows + 2

\* CreatePurchase: one row into purchases, or an error that is only logged
CreatePurchase(rows, fails) == IF fails THEN rows ELSE rows + 1

\* a finalizer that gives the unit and the user's count back when its
\* insert fails
WorkerLogReverting(w, fails) ==
    /\ w \in workers
    /\ w.pc = "log"
    /\ dbPurchases' = [dbPurchases EXCEPT ![w.sale] = CreatePurchase(@, fails)]
    /\ lostInserts' = [lostInserts EXCEPT ![w.sale] =
                         IF fails THEN @ + 1 ELSE @]
    /\ inventory' = [inventory EXCEPT ![w.sale] =
                       IF fails THEN IncrBy(@, 1) ELSE @]
    /\ userPurchases' = [userPurchases EXCEPT ![w.sale][w.user] =
                           IF fails THEN @ - 1 ELSE @]
    /\ workers' = (workers \ {w}) \cup {[w EXCEPT !.pc = "status"]}
    /\ UNCHANGED <<migVars, now,
                   rotVars, soldBitmap, codeStore, nextCode, req, last,
                   dbAttempts, loggers, codeExp, codeFor, reserved,
                   okPurchases, okByCode>>

\* the finalizer's CreatePurchase
WorkerLog(w, fails) ==
    /\ w \in workers
    /\ w.pc = "log"
    /\ dbPurchases' = [dbPurchases EXCEPT ![w.sale] = CreatePurchase(@, fails)]
    /\ lostInserts' = [lostInserts EXCEPT ![w.sale] =
                         IF fails THEN @ + 1 ELSE @]
    /\ workers' = (workers \ {w}) \cup {[w EXCEPT !.pc = "status"]}
    /\ UNCHANGED <<migVars, now,
                   rotVars, redisSale, codeStore, nextCode, req, last,
                   dbAttempts, loggers, codeExp, codeFor, reserved,
                   okPurchases, okByCode>>

\* UPDATE checkout_attempts SET status = true WHERE code = c: changes the
\* row when there is one
UpdateCheckoutStatus(row, fails) ==
    IF fails \/ row = "none" THEN row ELSE "true"

\* the finalizer's UpdateCheckoutStatus, and the end of the goroutine
WorkerStatus(w, fails) ==
    /\ w \in workers
    /\ w.pc = "status"
    /\ dbAttempts' = [dbAttempts EXCEPT ![w.code] =
                        UpdateCheckoutStatus(@, fails)]
    /\ workers' = workers \ {w}
    /\ UNCHANGED <<migVars, now,
                   rotVars, redisSale, codeStore, nextCode, req, last,
                   dbPurchases, loggers, hist>>

\* INSERT INTO checkout_attempts with status false
LogCheckoutAttempt(row, fails) == IF fails THEN row ELSE "false"

\* the goroutine checkoutHandler starts for the code c: LogCheckoutAttempt
WorkerAttempt(c, fails) ==
    /\ c \in loggers
    /\ dbAttempts' = [dbAttempts EXCEPT ![c] = LogCheckoutAttempt(@, fails)]
    /\ loggers' = loggers \ {c}
    /\ UNCHANGED <<migVars, now,
                   rotVars, redisSale, codeStore, nextCode, req, last,
                   workers, dbPurchases, hist>>

\* ------------------------------------------------------------------------
\* The rotator: the ticker loop of Start and the steps of startNewSale
\* ------------------------------------------------------------------------
\* a counter seeded one short
InitialInventoryShort(t) == Key(TotalItems - 1, t + KeyTTL)

\* the inventory key InitializeSale writes: N, with the sale keys' TTL
InitialInventory(t) == Key(TotalItems, t + KeyTTL)

\* fmt.Sprintf("sale_%d", now.Unix()): the sale id is the clock reading
SaleId(t) == t

\* where a failed startNewSale leaves the rotator: the first one, called
\* by Start while no sale is current, ends the process (log.Fatalf in
\* NewServer); a later one is logged and the ticker loop goes on
AfterFailure == IF active = 0 THEN "down" ELSE "wait"

\* Start's call or the ticker's; startNewSale takes the sale id from the
\* clock and inserts the sale row (sale_id is UNIQUE)
RotCreateSale(fails) ==
    /\ rot.pc = "wait"
    /\ now >= rot.next
    /\ IF fails \/ SaleId(now) \in dbSales THEN
            /\ rot' = [rot EXCEPT !.pc = AfterFailure,
                                  !.next = @ + SaleDuration]
            /\ UNCHANGED dbSales
       ELSE
            /\ rot' = [pc |-> "items", id |-> SaleId(now),
                       next |-> rot.next + SaleDuration]
            /\ dbSales' = dbSales \cup {SaleId(now)}
    /\ UNCHANGED <<migVars, now,
                   active, dbItems, showcase, saleActive, redisSale,
                   codeStore, nextCode, req, last, workers, db, hist>>

\* startNewSale: CreateItems
RotCreateItems(fails) ==
    /\ rot.pc = "items"
    /\ IF fails THEN
            /\ rot' = [rot EXCEPT !.pc = AfterFailure]
            /\ UNCHANGED dbItems
       ELSE
            /\ rot' = [rot EXCEPT !.pc = "showcase"]
            /\ dbItems' = dbItems \cup {rot.id}
    /\ UNCHANGED <<migVars, now,
                   active, dbSales, showcase, saleActive, redisSale,
                   codeStore, nextCode, req, last, workers, db, hist>>

\* SetShowcaseInfo: SET sale:<id>:showcase_ids with the sale keys' TTL (the
\* value 1 stands for the item ids)
SetShowcaseInfo(t) == Key(1, t + KeyTTL)

\* startNewSale: GetShowcaseItemIDs and SetShowcaseInfo; a failure of
\* either is logged as a warning and the rotation goes on
RotShowcase(fails) ==
    /\ rot.pc = "showcase"
    /\ rot' = [rot EXCEPT !.pc = "init"]
    /\ showcase' = IF fails THEN showcase
                   ELSE [showcase EXCEPT ![rot.id] = SetShowcaseInfo(now)]
    /\ UNCHANGED <<migVars, now,
                   active, dbSales, dbItems, saleActive, redisSale,
                   codeStore, nextCode, req, last, workers, db, hist>>

\* startNewSale: InitializeSale, a pipeline of SET inventory, SET active
\* ("1", here 1), DEL user_purchases, DEL sold_bitmap
RotInitializeSale(fails) ==
    /\ rot.pc = "init"
    /\ IF fails THEN
            /\ rot' = [rot EXCEPT !.pc = AfterFailure]
            /\ UNCHANGED <<redisSale, saleActive>>
       ELSE
            /\ rot' = [rot EXCEPT !.pc = "swap"]
            /\ inventory' = [inventory EXCEPT ![rot.id] = InitialInventory(now)]
            /\ saleActive' = [saleActive EXCEPT ![rot.id] = Key(1, now + KeyTTL)]
            /\ userPurchases' = [userPurchases EXCEPT
                                   ![rot.id] = [u \in Users |-> 0]]
            /\ soldBitmap' = [soldBitmap EXCEPT ![rot.id] = {}]
    /\ UNCHANGED <<migVars, now, active, dbSales, dbItems, showcase, codeStore,
                   nextCode, req, last, workers, db, hist>>

\* startNewSale: the pointer swap under the write lock
RotSwap ==
    /\ rot.pc = "swap"
    /\ active' = rot.id
    /\ rot' = [rot EXCEPT !.pc = "wait"]
    /\ UNCHANGED <<migVars, now,
                   dbSales, dbItems, showcase, saleActive, redisSale,
                   codeStore, nextCode, req, last, workers, db, hist>>

\* The process ends (a crash, a stop, or log.Fatalf after a failed first
\* startNewSale) and is started again (restart: unless-stopped): the
\* handlers and goroutines in flight are gone, NewServer runs Start, which
\* finds every migration recorded and calls startNewSale at once; Redis and
\* PostgreSQL keep what they hold.
Restart ==
    /\ active' = 0
    /\ rot' = [pc |-> "wait", id |-> 0, next |-> now]
    /\ req' = [p \in Procs |-> Idle]
    /\ workers' = {}
    /\ loggers' = {}
    /\ UNCHANGED <<migVars, now,
                   dbSales, dbItems, showcase, saleActive, redisSale,
                   codeStore, nextCode, last, dbPurchases, dbAttempts, hist>>

\* ------------------------------------------------------------------------
\* Migrations: RunMigrations and runMigration, run by Start before the first
\* sale.  A file name is its base name, a sequence of characters (here
\* digits), and its extension.
\* ------------------------------------------------------------------------
File(base, ext) == [base |-> base, ext |-> ext]

\* the embedded migrations directory as ReadDir lists it: "1.sql",
\* "10.sql", "2.sql", "21.sql" and a file that is no migration
MigrationDir ==
    <<File(<<1>>, "sql"), File(<<1, 0>>, "sql"), File(<<2>>, "sql"),
      File(<<2, 1>>, "sql"), File(<<3>>, "md")>>

RECURSIVE SeqLess(_, _)
\* byte-wise string comparison: a proper prefix comes first
SeqLess(a, b) ==
    IF b = <<>> THEN FALSE
    ELSE IF a = <<>> THEN TRUE
    ELSE IF Head(a) # Head(b) THEN Head(a) < Head(b)
    ELSE SeqLess(Tail(a), Tail(b))

\* the order sort.Strings puts two names with the same extension in
NameLess(f, g) == SeqLess(f.base, g.base)

RECURSIVE SelectSql(_)
\* the loop that keeps the names with filepath.Ext(name) == ".sql"
SelectSql(files) ==
    IF files = <<>> THEN <<>>
    ELSE IF Head(files).ext = "sql"
         THEN <<Head(files)>> \o SelectSql(Tail(files))
         ELSE SelectSql(Tail(files))

RECURSIVE Insert(_, _)
\* the place of a name in a sorted list
Insert(f, sorted) ==
    IF sorted = <<>> THEN <<f>>
    ELSE IF NameLess(f, Head(sorted)) THEN <<f>> \o sorted
    ELSE <<Head(sorted)>> \o Insert(f, Tail(sorted))

RECURSIVE SortStrings(_)
\* a step that turns the order of the names round
SortStringsDescending(names) ==
    [k \in 1..Len(names) |-> names[Len(names) + 1 - k]]

\* sort.Strings(migrationNames): ascending
SortStrings(names) ==
    IF names = <<>> THEN <<>>
    ELSE Insert(Head(names), SortStrings(Tail(names)))

\* strings.TrimSuffix(filename, ".sql"): the version of a file
TrimSuffix(f) == f.base

\* no transaction open
NoTx == [stmts |-> FALSE, version |-> FALSE]

\* RunMigrations is not running
MigratorIdle == [pc |-> "idle", queue |-> <<>>, tx |-> NoTx, runs |-> 0,
                 err |-> FALSE]

\* RunMigrations returns the error of a call; the deferred tx.Rollback
\* drops what the open transaction did
MigrationFailed == [migrator EXCEPT !.pc = "idle", !.tx = NoTx, !.err = TRUE]

\* runMigration has returned nil for the first file of the queue: the loop
\* of RunMigrations goes to the next file, or returns nil
MigrationNext ==
    IF Len(migrator.queue) > 1
    THEN [migrator EXCEPT !.pc = "exists", !.queue = Tail(@), !.tx = NoTx]
    ELSE [migrator EXCEPT !.pc = "idle", !.queue = <<>>, !.tx = NoTx]

\* Start calls RunMigrations
RunMigrations ==
    /\ migrator.pc = "idle"
    /\ migrator.runs < MaxRuns
    /\ migrator' = [MigratorIdle EXCEPT !.pc = "table",
                                        !.runs = migrator.runs + 1]
    /\ UNCHANGED <<schemaMigrations, appliedFiles, metrics, now, rotVars,
                   redisSale,
                   codeStore, nextCode, req, last, workers, db, hist>>

\* createMigrationsTable (CREATE TABLE IF NOT EXISTS), then ReadDir, the
\* .sql filter and sort.Strings
CreateMigrationsTable(fails) ==
    /\ migrator.pc = "table"
    /\ IF fails THEN migrator' = MigrationFailed
       ELSE LET names == SortStrings(SelectSql(MigrationDir)) IN
            migrator' = [migrator EXCEPT
                            !.pc = IF names = <<>> THEN "idle" ELSE "exists",
                            !.queue = names]
    /\ UNCHANGED <<schemaMigrations, appliedFiles, metrics, now, rotVars,
                   redisSale,
                   codeStore, nextCode, req, last, workers, db, hist>>

\* runMigration: SELECT EXISTS of the version; a recorded file is skipped
RunMigrationExists(fails) ==
    /\ migrator.pc = "exists"
    /\ IF fails THEN migrator' = MigrationFailed
       ELSE IF TrimSuffix(Head(migrator.queue)) \in schemaMigrations
            THEN migrator' = MigrationNext
            ELSE migrator' = [migrator EXCEPT !.pc = "begin"]
    /\ UNCHANGED <<schemaMigrations, appliedFiles, metrics, now, rotVars,
                   redisSale,
                   codeStore, nextCode, req, last, workers, db, hist>>

\* runMigration: ReadFile and db.Begin
RunMigrationBegin(fails) ==
    /\ migrator.pc = "begin"
    /\ migrator' = IF fails THEN MigrationFailed
                   ELSE [migrator EXCEPT !.pc = "exec", !.tx = NoTx]
    /\ UNCHANGED <<schemaMigrations, appliedFiles, metrics, now, rotVars,
                   redisSale,
                   codeStore, nextCode, req, last, workers, db, hist>>

\* runMigration: tx.Exec of the file's statements
RunMigrationExec(fails) ==
    /\ migrator.pc = "exec"
    /\ migrator' = IF fails THEN MigrationFailed
                   ELSE [migrator EXCEPT !.pc = "insert", !.tx.stmts = TRUE]
    /\ UNCHANGED <<schemaMigrations, appliedFiles, metrics, now, rotVars,
                   redisSale,
                   codeStore, nextCode, req, last, workers, db, hist>>

\* runMigration: tx.Exec of the INSERT INTO schema_migrations (version is
\* the PRIMARY KEY)
RunMigrationInsert(fails) ==
    /\ migrator.pc = "insert"
    /\ migrator' =
            IF fails \/ TrimSuffix(Head(migrator.queue)) \in schemaMigrations
            THEN MigrationFailed
            ELSE [migrator EXCEPT !.pc = "commit", !.tx.version = TRUE]
    /\ UNCHANGED <<schemaMigrations, appliedFiles, metrics, now, rotVars,
                   redisSale,
                   codeStore, nextCode, req, last, workers, db, hist>>

\* tx.Commit: the version rows after the commit of a transaction on file f
CommitVersion(tx, f, versions) ==
    IF tx.version THEN versions \cup {TrimSuffix(f)} ELSE versions

\* runMigration: tx.Commit, which makes the statements and the version row
\* durable in one step
RunMigrationCommit(fails) ==
    /\ migrator.pc = "commit"
    /\ LET f == Head(migrator.queue) IN
       IF fails THEN
            /\ migrator' = MigrationFailed
            /\ UNCHANGED <<schemaMigrations, appliedFiles>>
       ELSE /\ schemaMigrations' =
                    CommitVersion(migrator.tx, f, schemaMigrations)
            /\ appliedFiles' = IF migrator.tx.stmts
                               THEN Append(appliedFiles, f)
                               ELSE appliedFiles
            /\ migrator' = MigrationNext
    /\ UNCHANGED <<metrics, now, rotVars, redisSale, codeStore, nextCode, req,
                   last, workers, db, hist>>

\* ------------------------------------------------------------------------
\* The clock.  Redis drops the keys whose time to live has run out.
\* ------------------------------------------------------------------------
TickTo(limit) ==
    /\ now < limit
    /\ now' = now + 1
    /\ inventory' = [s \in SaleIds |-> Unexpired(inventory[s], now + 1)]
    /\ codeStore' = [c \in CodeIds |-> UnexpiredRec(codeStore[c], now + 1)]
    /\ showcase' = [s \in SaleIds |-> Unexpired(showcase[s], now + 1)]
    /\ saleActive' = [s \in SaleIds |-> Unexpired(saleActive[s], now + 1)]
    /\ UNCHANGED <<migVars, active, rot, dbSales, dbItems, userPurchases,
                   soldBitmap, nextCode, req, last, workers, db, hist>>

Tick == TickTo(MaxTime)

\* the clock value at which the keys of the first sale run out
StaleTime == 1 + KeyTTL

\* ------------------------------------------------------------------------
\* Specification.  The initial state is the one NewServer leaves: the first
\* startNewSale has succeeded and the ticker is armed.
\* ------------------------------------------------------------------------
Init ==
    /\ now = 1
    /\ active = 1
    /\ rot = [pc |-> "wait", id |-> 1, next |-> 1 + SaleDuration]
    /\ dbSales = {1}
    /\ dbItems = {1}
    /\ showcase = [s \in SaleIds |->
                      IF s = 1 THEN SetShowcaseInfo(1) ELSE NoKey]
    /\ inventory = [s \in SaleIds |->
                       IF s = 1 THEN InitialInventory(1) ELSE NoKey]
    /\ saleActive = [s \in SaleIds |->
                        IF s = 1 THEN Key(1, 1 + KeyTTL) ELSE NoKey]
    /\ userPurchases = [s \in SaleIds |-> [u \in Users |-> 0]]
    /\ soldBitmap = [s \in SaleIds |-> {}]
    /\ codeStore = [c \in CodeIds |-> NoRec]
    /\ nextCode = 1
    /\ req = [p \in Procs |-> Idle]
    /\ last = NoResponse
    /\ workers = {}
    /\ loggers = {}
    /\ dbPurchases = [s \in SaleIds |-> 0]
    /\ dbAttempts = [c \in CodeIds |-> "none"]
    /\ codeExp = [c \in CodeIds |-> 0]
    /\ codeFor = [c \in CodeIds |-> NoCheckout]
    /\ reserved = [s \in SaleIds |-> FALSE]
    /\ okPurchases = [s \in SaleIds |-> 0]
    /\ okByCode = [c \in CodeIds |-> 0]
    /\ lostInserts = [s \in SaleIds |-> 0]
    /\ migrator = [MigratorIdle EXCEPT !.runs = 1]
    /\ schemaMigrations =
            {TrimSuffix(MigrationDir[k]) : k \in 1..(Len(MigrationDir) - 1)}
    /\ appliedFiles = SubSeq(MigrationDir, 1, Len(MigrationDir) - 1)
    /\ metrics = NoMetrics

\* the state in which the process is started on a database that has no
\* table yet: no sale, no key, no row
InitFresh ==
    /\ now = 1
    /\ active = 0
    /\ rot = [pc |-> "down", id |-> 0, next |-> 1]
    /\ dbSales = {}
    /\ dbItems = {}
    /\ showcase = [s \in SaleIds |-> NoKey]
    /\ inventory = [s \in SaleIds |-> NoKey]
    /\ saleActive = [s \in SaleIds |-> NoKey]
    /\ userPurchases = [s \in SaleIds |-> [u \in Users |-> 0]]
    /\ soldBitmap = [s \in SaleIds |-> {}]
    /\ codeStore = [c \in CodeIds |-> NoRec]
    /\ nextCode = 1
    /\ req = [p \in Procs |-> Idle]
    /\ last = NoResponse
    /\ workers = {}
    /\ loggers = {}
    /\ dbPurchases = [s \in SaleIds |-> 0]
    /\ dbAttempts = [c \in CodeIds |-> "none"]
    /\ codeExp = [c \in CodeIds |-> 0]
    /\ codeFor = [c \in CodeIds |-> NoCheckout]
    /\ reserved = [s \in SaleIds |-> FALSE]
    /\ okPurchases = [s \in SaleIds |-> 0]
    /\ okByCode = [c \in CodeIds |-> 0]
    /\ lostInserts = [s \in SaleIds |-> 0]
    /\ migrator = MigratorIdle
    /\ schemaMigrations = {}
    /\ appliedFiles = <<>>
    /\ metrics = NoMetrics

\* the request handlers in the slots P, for checkouts with a user_id of U
\* and an id of I, and purchases with a code issued so far or one of C
NextRequests(P, U, I, C) ==
    \/ \E p \in P, u \in U, i \in I : CheckoutStart(p, u, i)
    \/ \E p \in P, f \in BOOLEAN : CheckoutScript(p, f)
    \/ \E p \in P, f \in BOOLEAN : CheckoutSetCode(p, f)
    \/ \E p \in P, f \in BOOLEAN : CheckoutCompensate(p, f)
    \/ \E p \in P, c \in Issued \cup C : PurchaseStart(p, c)
    \/ \E p \in P, f \in BOOLEAN : PurchaseVerify(p, f)
    \/ \E p \in P, f \in BOOLEAN : PurchaseIncr(p, f)

\* the client takes the response off the wire
Observe ==
    /\ last # NoResponse
    /\ last' = NoResponse
    /\ UNCHANGED <<metrics, migVars, now,
                   rotVars, redisSale, codeStore, nextCode, req, workers,
                   db, hist>>

\* no response is on the wire.  A response is taken before the next step
\* of the system: taking it changes nothing else, so no interleaving of the
\* other steps is lost.
Quiet == last = NoResponse

\* the counters of the metrics service are held: no handler, goroutine or
\* rotator step reads them, and the specifications that do not look at them
\* leave the counting out
Uncounted == UNCHANGED metrics

\* no response is on the wire and the counting is left out
Still == Quiet /\ Uncounted

\* the finalizers purchaseHandler starts; F is the set of outcomes of their
\* calls (TRUE: the call fails)
NextWorkers(F) ==
    \/ \E w \in workers, f \in F : WorkerMark(w, f)
    \/ \E w \in workers, f \in F : WorkerLog(w, f)
    \/ \E w \in workers, f \in F : WorkerStatus(w, f)

\* the loggers checkoutHandler starts
NextLoggers(F) == \E c \in loggers, f \in F : WorkerAttempt(c, f)

\* the rotator
NextRotator ==
    \/ \E f \in BOOLEAN : RotCreateSale(f)
    \/ \E f \in BOOLEAN : RotCreateItems(f)
    \/ \E f \in BOOLEAN : RotShowcase(f)
    \/ \E f \in BOOLEAN : RotInitializeSale(f)
    \/ RotSwap

\* One sale under load, within the lifetime of the codes: the handlers,
\* two at a time, for two users.  The goroutines the handlers start write
\* the sold bitmap and the database only, and the rotator only the keys of
\* the sale it opens, so neither is scheduled here.
NextSale ==
    \/ Observe
    \/ Still /\ NextRequests(Procs, Users \cup {""}, {ItemGood, NoItem},
                             {0, Bogus})

SpecSale == Init /\ [][NextSale]_vars

\* One sale while codes expire: the handlers, two at a time, and the clock,
\* for one user.
NextExpiry ==
    \/ Observe
    \/ Still /\ (\/ NextRequests(Procs, {"alice", ""}, {ItemGood, NoItem},
                                 {0, Bogus})
                 \/ Tick)

SpecExpiry == Init /\ [][NextExpiry]_vars

\* Purchases and their asynchronous work, within the lifetime of the codes:
\* the handlers, one at a time, the finalizers and the loggers, for one user.
NextAudit ==
    \/ Observe
    \/ Still /\ (\/ NextRequests({ProcOrder[1]}, {"alice", ""},
                                 ItemIds \cup {NoItem}, {0, Bogus})
                 \/ NextWorkers(BOOLEAN)
                 \/ NextLoggers(BOOLEAN))

SpecAudit == Init /\ [][NextAudit]_vars

\* Rotation under load: the rotator, the handlers, one at a time, the
\* finalizers and the clock, for one user.  The requests are well formed
\* and name issued codes; the finalizers' calls succeed.
NextRotation ==
    \/ Observe
    \/ Still /\ (\/ NextRequests({ProcOrder[1]}, {"alice"}, {ItemGood}, {})
                 \/ NextWorkers({FALSE})
                 \/ NextRotator
                 \/ Tick)

SpecRotation == Init /\ [][NextRotation]_vars

\* Checkouts against a fresh sale while the store answers every call: the
\* checkout handlers, two at a time, for two users.
NextSellOut ==
    \/ Observe
    \/ Still /\ (\/ \E p \in Procs, u \in Users : CheckoutStart(p, u, ItemGood)
                 \/ \E p \in Procs : CheckoutScript(p, FALSE)
                 \/ \E p \in Procs : CheckoutSetCode(p, FALSE))

SpecSellOut == Init /\ [][NextSellOut]_vars

\* the checkouts of two users, each for an item id of its own
Orders == {<<"alice", ItemGood>>, <<"bob", ItemBare>>}

\* Checkout and purchase across a rotation while the stores answer every
\* call: the handlers, one at a time, for the checkouts of Orders, the
\* rotator and the clock.  The requests are well formed and name issued
\* codes.
NextRoundTrip ==
    \/ Observe
    \/ Still /\ (\/ \E o \in Orders : CheckoutStart(ProcOrder[1], o[1], o[2])
                 \/ CheckoutScript(ProcOrder[1], FALSE)
                 \/ CheckoutSetCode(ProcOrder[1], FALSE)
                 \/ \E c \in Issued : PurchaseStart(ProcOrder[1], c)
                 \/ PurchaseVerify(ProcOrder[1], FALSE)
                 \/ PurchaseIncr(ProcOrder[1], FALSE)
                 \/ RotCreateSale(FALSE)
                 \/ RotCreateItems(FALSE)
                 \/ RotShowcase(FALSE)
                 \/ RotInitializeSale(FALSE)
                 \/ RotSwap
                 \/ Tick)

SpecRoundTrip == Init /\ [][NextRoundTrip]_vars

\* one request at a time for one user, any store call of a handler failing
\* or not, and the finalizers
NextLost ==
    \/ Observe
    \/ Still /\ (\/ NextRequests({ProcOrder[1]}, {"alice"}, {ItemGood}, {})
                 \/ NextWorkers({FALSE}))

SpecLost == Init /\ [][NextLost]_vars

\* checkouts and /sale/status requests, the read of the counter failing or
\* not
NextStatus ==
    \/ Observe
    \/ Still /\ (\/ \E p \in Procs, u \in Users : CheckoutStart(p, u, ItemGood)
                 \/ \E p \in Procs : CheckoutScript(p, FALSE)
                 \/ \E p \in Procs : CheckoutSetCode(p, FALSE)
                 \/ \E p \in Procs : StatusStart(p)
                 \/ \E p \in Procs, f \in BOOLEAN : StatusGet(p, f))

SpecStatus == Init /\ [][NextStatus]_vars

\* Rotation as the readers of the current sale see it: /sale/current
\* requests, checkouts one at a time, the rotator, any of its store calls
\* failing or not, and the clock.
NextCurrent ==
    \/ Observe
    \/ Still /\ (\/ CurrentSale
                 \/ CheckoutStart(ProcOrder[1], "alice", ItemGood)
                 \/ CheckoutScript(ProcOrder[1], FALSE)
                 \/ CheckoutSetCode(ProcOrder[1], FALSE)
                 \/ NextRotator
                 \/ Tick)

SpecCurrent == Init /\ [][NextCurrent]_vars

\* The handlers and the goroutines they start: requests one at a time for
\* one user, the finalizers and the attempt loggers, any call failing or
\* not.
NextAsync ==
    \/ Observe
    \/ Still /\ (\/ NextRequests({ProcOrder[1]}, {"alice"}, {ItemGood}, {})
                 \/ NextWorkers(BOOLEAN)
                 \/ NextLoggers(BOOLEAN))

SpecAsync == Init /\ [][NextAsync]_vars

\* The handlers when a fault may be raised inside them: requests one at a
\* time for one user, any store call failing or not.
NextPanic ==
    \/ Observe
    \/ Still /\ (\/ NextRequests({ProcOrder[1]}, {"alice"}, {ItemGood}, {})
                 \/ HandlerPanic(ProcOrder[1]))

SpecPanic == Init /\ [][NextPanic]_vars

\* The Redis keys of the sales over checkouts, purchases, code expiry and
\* rotation: requests one at a time for one user, the rotator and the
\* clock, any store call failing or not.
NextCounters ==
    \/ Observe
    \/ Still /\ (\/ NextRequests({ProcOrder[1]}, {"alice"}, {ItemGood}, {})
                 \/ NextRotator
                 \/ Tick)

SpecCounters == Init /\ [][NextCounters]_vars

\* A sale that stays current because the sales table cannot be written:
\* requests one at a time for one user, every startNewSale failing at
\* CreateSale, and the clock up to the end of the sale's keys.  The ticker
\* is on time: the clock does not pass a tick that is due.
NextStale ==
    \/ Observe
    \/ Still /\ (\/ NextRequests({ProcOrder[1]}, {"alice"}, {ItemGood}, {})
                 \/ RotCreateSale(TRUE)
                 \/ now < rot.next /\ TickTo(StaleTime))

SpecStale == Init /\ [][NextStale]_vars

\* Purchases of the item ids clients send and their finalizers, while the
\* stores answer every call: requests one at a time for two users.
NextBitmap ==
    \/ Observe
    \/ Still /\ (\/ \E o \in ItemOrders :
                        CheckoutStart(ProcOrder[1], o[1], o[2])
                 \/ CheckoutScript(ProcOrder[1], FALSE)
                 \/ CheckoutSetCode(ProcOrder[1], FALSE)
                 \/ \E c \in Issued : PurchaseStart(ProcOrder[1], c)
                 \/ PurchaseVerify(ProcOrder[1], FALSE)
                 \/ PurchaseIncr(ProcOrder[1], FALSE)
                 \/ NextWorkers({FALSE}))

SpecBitmap == Init /\ [][NextBitmap]_vars

\* The rotator across restarts of the process: Start's startNewSale and the
\* ticker's, any of their store calls failing or not, /sale/current while
\* a sale is current, and the clock.
NextRestart ==
    \/ Observe
    \/ Still /\ (\/ Restart
                 \/ NextRotator
                 \/ active # 0 /\ CurrentSale
                 \/ Tick)

SpecRestart == Init /\ [][NextRestart]_vars

\* Codes across a rotation while the stores answer every call: requests one
\* at a time for one user, the finalizers, the rotator and the clock.
NextIsolation ==
    \/ Observe
    \/ Still /\ (\/ CheckoutStart(ProcOrder[1], "alice", ItemGood)
                 \/ CheckoutScript(ProcOrder[1], FALSE)
                 \/ CheckoutSetCode(ProcOrder[1], FALSE)
                 \/ \E c \in Issued : PurchaseStart(ProcOrder[1], c)
                 \/ PurchaseVerify(ProcOrder[1], FALSE)
                 \/ PurchaseIncr(ProcOrder[1], FALSE)
                 \/ NextWorkers({FALSE})
                 \/ RotCreateSale(FALSE)
                 \/ RotCreateItems(FALSE)
                 \/ RotShowcase(FALSE)
                 \/ RotInitializeSale(FALSE)
                 \/ RotSwap
                 \/ Tick)

SpecIsolation == Init /\ [][NextIsolation]_vars

\* Codes and their checkout_attempts rows while the stores answer every
\* call: requests one at a time for one user, the attempt loggers and the
\* finalizers.
NextAttempts ==
    \/ Observe
    \/ Still /\ (\/ CheckoutStart(ProcOrder[1], "alice", ItemGood)
                 \/ CheckoutScript(ProcOrder[1], FALSE)
                 \/ CheckoutSetCode(ProcOrder[1], FALSE)
                 \/ \E c \in Issued : PurchaseStart(ProcOrder[1], c)
                 \/ PurchaseVerify(ProcOrder[1], FALSE)
                 \/ PurchaseIncr(ProcOrder[1], FALSE)
                 \/ NextWorkers({FALSE})
                 \/ NextLoggers({FALSE}))

SpecAttempts == Init /\ [][NextAttempts]_vars

\* The migrations over the starts of the process on a fresh database, any
\* call of the database failing or not.
NextMigrations ==
    \/ RunMigrations
    \/ \E f \in BOOLEAN : CreateMigrationsTable(f)
    \/ \E f \in BOOLEAN : RunMigrationExists(f)
    \/ \E f \in BOOLEAN : RunMigrationBegin(f)
    \/ \E f \in BOOLEAN : RunMigrationExec(f)
    \/ \E f \in BOOLEAN : RunMigrationInsert(f)
    \/ \E f \in BOOLEAN : RunMigrationCommit(f)

SpecMigrations == InitFresh /\ [][NextMigrations]_vars

\* The handlers with their counters: requests two at a time for one user,
\* well formed or not, any store call failing or not.
NextMetrics ==
    \/ Observe
    \/ Quiet /\ (\/ \E p \in Procs, u \in {"alice", ""} :
                        CheckoutStartCounted(p, u, ItemGood)
                 \/ \E p \in Procs, f \in BOOLEAN : CheckoutScriptCounted(p, f)
                 \/ \E p \in Procs, f \in BOOLEAN : CheckoutSetCodeCounted(p, f)
                 \/ \E p \in Procs, f \in BOOLEAN :
                        CheckoutCompensateCounted(p, f)
                 \/ \E p \in Procs, c \in Issued \cup {0} :
                        PurchaseStartCounted(p, c)
                 \/ \E p \in Procs, f \in BOOLEAN : PurchaseVerifyCounted(p, f)
                 \/ \E p \in Procs, f \in BOOLEAN : PurchaseIncrCounted(p, f))

SpecMetrics == Init /\ [][NextMetrics]_vars

TypeOK ==
    /\ now \in 1..StaleTime
    /\ active \in SaleIds \cup {0}
    /\ nextCode \in 1..(MaxCodes + 1)
    /\ \A s \in SaleIds : inventory[s].val \in Int


\* ------------------------------------------------------------------------
\* Properties
\* ------------------------------------------------------------------------
\* what GetInventoryStatus reads: the counter, 0 when the key is missing
InvVal(s) == IF inventory[s].present THEN inventory[s].val ELSE 0

\* the codes of sale s that are stored: issued, not consumed, not expired
Outstanding(s) == {c \in CodeIds : codeStore[c].present /\ codeStore[c].sale = s}

\* no live code of sale s and no request in flight
Quiescent(s) == Outstanding(s) = {} /\ \A p \in Procs : ~InFlight(p)

\* the most recent response is one of handler o with status st
Answered(o, st) == last.op = o /\ last.status = st

\* C1: no oversell.  For every sale the number of purchase requests
\* answered with success is at most the sale's total_items N.
C1_NoOversell == \A s \in SaleIds : okPurchases[s] <= TotalItems

\* all N items of the sale are sold and a further checkout was refused
C1_Witness ==
    /\ okPurchases[1] = TotalItems
    /\ Answered("checkout", 409)

\* C2: per-user cap.  For every user and sale the number of committed
\* purchases (the user's UserCounter) is at most L.
C2_PerUserCap ==
    \A s \in SaleIds, u \in Users : userPurchases[s][u] <= MaxPerUser

\* C3: code uniqueness.  For every code at most one purchase call returns
\* success, and every other purchase call with that code is answered
\* invalid-or-expired-code (400).
C3_CodeUniqueness ==
    /\ \A c \in CodeIds : okByCode[c] <= 1
    /\ (/\ last.op = "purchase"
        /\ last.code \in CodeIds
        /\ okByCode[last.code] = 1) => last.status \in {200, 400}

\* a purchase of a code has succeeded and a later one of it was refused
C3_Witness ==
    /\ Answered("purchase", 400)
    /\ last.code \in CodeIds
    /\ okByCode[last.code] = 1

\* C4: inventory conservation, upper bound.  In every state of a sale,
\* InventoryCounter + outstanding codes + committed purchases <= N.
C4_ConservationUpper ==
    \A s \in SaleIds :
        InvVal(s) + Cardinality(Outstanding(s)) + okPurchases[s] <= TotalItems

\* a code write has failed and was compensated, a unit is committed, and
\* the counter and the committed unit account for all N
C4_Witness ==
    /\ Answered("checkout", 500) /\ last.at = "co_comp"
    /\ okPurchases[1] > 0
    /\ InvVal(1) + Cardinality(Outstanding(1)) + okPurchases[1] = TotalItems

\* C5: inventory conservation, equality.  In every state of a sale with no
\* reservation outstanding (no live code, no request in flight),
\* InventoryCounter + committed purchases = N.
C5_ConservationEqual ==
    \A s \in SaleIds :
        (inventory[s].present /\ Quiescent(s))
        => InvVal(s) + okPurchases[s] = TotalItems

\* C6: no undersell.  A reserved unit whose purchase never completes comes
\* back into the inventory; so a sale whose counter is exhausted while no
\* reservation is outstanding has N committed purchases.
C6_NoUndersell ==
    \A s \in SaleIds :
        (inventory[s].present /\ inventory[s].val = 0 /\ Quiescent(s))
        => okPurchases[s] = TotalItems

\* C7: code expiry.  A purchase issued strictly after the code's expires_at
\* never gets past VerifyAndPurchase: it is answered 400, and neither the
\* UserCounter increment nor the finalizer is reached.
C7_CodeExpiry ==
    /\ \A p \in Procs : req[p].late => req[p].pc = "pu_verify"
    /\ last.late => Answered("purchase", 400)

\* a purchase issued after expires_at has been answered 400
C7_Witness == last.late /\ Answered("purchase", 400)

\* C8: the InventoryCounter is never below 0 in any state a client can
\* observe, the script being one step.
C8_InventoryNonNegative == \A s \in SaleIds : inventory[s].val >= 0

\* the counter is at 0 and a reserve call has been answered sold out
C8_Witness ==
    /\ inventory[1].present /\ inventory[1].val = 0
    /\ Answered("checkout", 409)


\* the sale a rotation step works on, 0 when the step opens none
Opening ==
    IF rot'.pc # "wait" THEN rot'.id
    ELSE IF rot.pc # "wait" THEN rot.id
    ELSE 0

\* C9: rotation boundary.  A sale that startNewSale has initialized reads
\* exactly N until the first reservation against it (for as long as the
\* key InitializeSale wrote lives), and no step of
\* startNewSale changes the InventoryCounter, UserCounter or SoldBitmap of
\* any other sale.
C9_RotationBoundary ==
    /\ [](\A s \in SaleIds :
            (inventory[s].present /\ inventory[s].dl # 0 /\ ~reserved[s])
            => inventory[s].val = TotalItems)
    /\ [][rot' # rot =>
            \A s \in SaleIds \ {Opening} :
                /\ inventory'[s] = inventory[s]
                /\ userPurchases'[s] = userPurchases[s]
                /\ soldBitmap'[s] = soldBitmap[s]]_vars

\* the rotation to sale 3 is done; sale 3 reads N and has no reservation,
\* and sale 1 keeps its lowered counter, its user count and its sold bit
C9_Witness ==
    /\ active = 3 /\ rot.pc = "wait"
    /\ inventory[3].present /\ inventory[3].val = TotalItems /\ ~reserved[3]
    /\ inventory[1].present /\ inventory[1].val < TotalItems
    /\ userPurchases[1]["alice"] = 1
    /\ soldBitmap[1] = {0}

CodesOf(s, u) ==
    {c \in CodeIds : codeFor[c].sale = s /\ codeFor[c].user = u}

\* C11: user limit at checkout.  Of the checkouts one user makes in a sale
\* at most L are answered with a code (the next one is refused with 403),
\* so that the user's checkouts lower the inventory by at most L.
C11_UserLimitAtCheckout ==
    \A s \in SaleIds, u \in Users : Cardinality(CodesOf(s, u)) <= MaxPerUser

\* the units a checkout has taken whose code is still being written
Writing(s) == {p \in Procs : req[p].pc = "co_set" /\ req[p].sale = s}

\* C12: exact sell-out under contention.  While no store call fails and
\* only checkouts run against the fresh sale, every checkout is answered 200
\* or 409, every unit taken from the counter is a code issued or being
\* written, and a checkout is refused with 409 only when all N units are
\* taken; so of N + k checkouts exactly N return a code, k return 409 and
\* the counter ends at 0, whatever the interleaving.
C12_ExactSellOut ==
    /\ last.op = "checkout" => last.status \in {200, 409}
    /\ inventory[1].val + (nextCode - 1) + Cardinality(Writing(1)) = TotalItems
    /\ inventory[1].val >= 0
    /\ Answered("checkout", 409) =>
            (nextCode - 1) + Cardinality(Writing(1)) = TotalItems

\* N codes are out, held by two users, the counter is at 0 and a further
\* checkout was refused with 409
C12_Witness ==
    /\ Answered("checkout", 409)
    /\ nextCode - 1 = TotalItems
    /\ inventory[1].val = 0
    /\ \E c, d \in Issued : codeFor[c].user # codeFor[d].user
    /\ \A p \in Procs : ~InFlight(p)


\* C13: reserve/commit round trip.  A purchase that succeeds answers with
\* the user_id, the id and the sale of the checkout that returned its code,
\* whatever the current sale is by then; and while the stores answer every
\* call, a purchase of an issued code is refused only if the code was
\* purchased before or its expires_at has come.
C13_RoundTrip ==
    /\ Answered("purchase", 200) =>
            [user |-> last.user, item |-> last.item, sale |-> last.sale]
                = codeFor[last.code]
    /\ (last.op = "purchase" /\ last.code \in Issued /\ last.status # 200) =>
            okByCode[last.code] = 1 \/ now >= codeExp[last.code]

\* bob's code of sale 1 was purchased after the rotation, and the response
\* names bob, his item id and sale 1
C13_Witness ==
    /\ Answered("purchase", 200)
    /\ active # 1
    /\ last.sale = 1 /\ last.user = "bob" /\ last.item = ItemBare


\* C14: a reserve that returns user_limit or sold_out leaves the state as
\* it was.  The step that answers a checkout 403 or 409 changes no
\* InventoryCounter value, no UserCounter entry and no code record.
C14_RefusedReserveFrame ==
    [][\A p \in Procs :
          (/\ req[p].pc = "co_script" /\ req'[p].pc = "idle"
           /\ last'.op = "checkout" /\ last'.status \in {403, 409})
          => /\ \A s \in SaleIds : InvVal(s)' = InvVal(s)
             /\ userPurchases' = userPurchases
             /\ codeStore' = codeStore
             /\ nextCode' = nextCode]_vars

\* a checkout of a user at the limit was answered 403 and the counter still
\* shows the one unit that user bought
C14_Witness ==
    /\ Answered("checkout", 403)
    /\ \E u \in Users : userPurchases[1][u] = MaxPerUser
    /\ InvVal(1) = TotalItems - MaxPerUser
    /\ Outstanding(1) = {}


\* C15: compensation on a failed code write.  When the script has taken a
\* unit and the write of the code record fails, ReserveItem returns an
\* error and the unit is back in the InventoryCounter when it returns.
C15_CompensationRefunds ==
    [][\A p \in Procs :
          (req[p].pc = "co_comp" /\ req'[p].pc = "idle")
          => /\ last'.op = "checkout" /\ last'.status = 500
             /\ inventory'[req[p].sale].val
                    = inventory[req[p].sale].val + 1]_vars

RotStepFailed ==
    \/ rot.pc = "wait" /\ rot'.next # rot.next /\ dbSales' = dbSales
    \/ rot.pc = "items" /\ rot' # rot /\ dbItems' = dbItems
    \/ rot.pc = "showcase" /\ rot' # rot /\ showcase' = showcase
    \/ rot.pc = "init" /\ rot' # rot /\ inventory' = inventory

\* C17: rotation failure policy.  When CreateSale, CreateItems, the showcase
\* step or InitializeSale fails, startNewSale returns without the swap: the
\* rotator is back at its ticker and the current sale is the previous one.
C17_RotationFailurePolicy ==
    [][RotStepFailed => rot'.pc = "wait" /\ active' = active]_vars

\* C18: checkout outcome mapping.  A checkout is answered with one of 200,
\* 400, 403, 409, 500, 503: 400 or 503 before any store call and only then
\* (a request with a missing parameter never reaches the store), 403 when
\* the user's count is at the limit, 409 when it is not and the counter has
\* nothing left, 500 exactly when a store call failed, and 200 with a code
\* when the code record was written; without a failed store call a
\* well-formed request is answered 200, 403 or 409.
C18_CheckoutOutcome ==
    /\ [](last.op = "checkout" =>
            /\ last.status \in {200, 400, 403, 409, 500, 503}
            /\ last.status \in {400, 503} <=> last.at = "idle"
            /\ last.status = 200 <=> last.at = "co_set" /\ ~last.fault
            /\ last.status = 200 => last.code \in Issued
            /\ last.status = 500 <=> last.fault
            /\ (~last.fault /\ last.status # 400)
                    => last.status \in {200, 403, 409})
    /\ [](\A p \in Procs :
            req[p].op = "checkout" /\ req[p].pc # "idle"
            => req[p].user # "" /\ req[p].item # NoItem /\ req[p].sale # 0)
    /\ [][\A p \in Procs :
            (req[p].pc = "co_script" /\ req'[p].pc # "co_script"
             /\ ~(req'[p].pc = "idle" /\ last'.fault))
            => LET s == req[p].sale
                   u == req[p].user
               IN  IF userPurchases[s][u] >= MaxPerUser
                   THEN req'[p].pc = "idle" /\ last'.status = 403
                   ELSE IF InvVal(s) <= 0
                   THEN req'[p].pc = "idle" /\ last'.status = 409
                   ELSE req'[p].pc = "co_set"]_vars

\* a checkout answered 409 by the script although fewer than N codes were
\* issued: the units went to checkouts answered 500
C18_Witness ==
    /\ Answered("checkout", 409) /\ ~last.fault /\ last.at = "co_script"
    /\ InvVal(1) = 0 /\ nextCode - 1 < TotalItems

\* C19: purchase error classification.  A purchase is answered 400 only
\* when the code is missing, unknown, consumed or expired: never when the
\* store call of VerifyAndPurchase failed.
C19_PurchaseErrorClass ==
    Answered("purchase", 400) => ~last.fault

\* C20: /sale/status.  In every response remaining_items is the value of
\* the current sale's InventoryCounter, within 0..N, and items_sold is
\* N - remaining_items, within 0..N; also when the read of the counter
\* failed.
C20_SaleStatus ==
    Answered("status", 200) =>
        /\ last.remaining = InvVal(last.sale)
        /\ last.remaining \in 0..TotalItems
        /\ last.sold = TotalItems - last.remaining
        /\ last.sold \in 0..TotalItems

\* C21: rotation visibility.  /sale/current answers with the sale that is
\* current when it reads the pointer, its end_time is its start_time plus
\* the sale length, and its three fields are those of one opened sale; the
\* current sale changes only in the pointer swap, to the sale the rotator
\* has just opened, so a failed rotation leaves the old sale current.
C21_RotationVisibility ==
    /\ [](Answered("current", 200) =>
            /\ last.sale = active
            /\ last.sale \in dbSales /\ last.sale \in dbItems
            /\ last.start = last.sale
            /\ last.ends = last.start + SaleDuration)
    /\ [][active' # active =>
            /\ rot.pc = "swap" /\ rot'.pc = "wait"
            /\ active' = rot.id /\ active' > active]_vars
    /\ [][(rot' # rot /\ rot.pc # "swap") => active' = active]_vars

\* /sale/current answers with a sale opened by a rotation
C21_Witness ==
    /\ Answered("current", 200)
    /\ last.sale # 1 /\ last.sale = active
    /\ last.ends = last.sale + SaleDuration

\* C22: sale identity.  Every invocation of startNewSale computes a sale id
\* that no sale opened before it has, also when it runs in the same second
\* as the invocation that opened that sale.
C22_SaleIdentity ==
    [][(/\ rot.pc = "wait" /\ rot' # rot
        /\ rot' # [pc |-> "wait", id |-> 0, next |-> now])
       => SaleId(now) \notin dbSales]_vars

\* C23: the asynchronous audit writes never influence the hot path.  A
\* step of an attempt logger or of a finalizer, whether its call fails or
\* not, leaves the counters, the code records, the handlers and the
\* response on the wire as they are; and a 200 response carries what the
\* checkout of its code stored, whatever became of the audit writes.
C23_AsyncFrame ==
    /\ [][((workers' # workers \/ loggers' # loggers) /\ req' = req)
          => /\ inventory' = inventory
             /\ userPurchases' = userPurchases
             /\ codeStore' = codeStore
             /\ nextCode' = nextCode
             /\ last' = last
             /\ okPurchases' = okPurchases]_vars
    /\ [](last.status = 200 /\ last.op \in {"checkout", "purchase"} =>
            /\ last.code \in Issued
            /\ codeFor[last.code] = [user |-> last.user, item |-> last.item,
                                     sale |-> last.sale])

\* a purchase was answered 200 and every audit write of it has failed: no
\* attempt row, no purchases row, no bit; the counters show the purchase
C23_Witness ==
    /\ okByCode[1] = 1 /\ workers = {} /\ loggers = {}
    /\ dbAttempts[1] = "none" /\ dbPurchases[1] = 0 /\ lostInserts[1] = 1
    /\ soldBitmap[1] = {}
    /\ userPurchases[1]["alice"] = 1
    /\ InvVal(1) = TotalItems - (nextCode - 1)

\* the codes stored for user u at the present clock reading
CodesNow(u) ==
    {c \in Issued : codeFor[c].user = u /\ codeExp[c] = now + CodeTTL}

\* C24: rate limiting.  Of the checkouts a user sends within one minute
\* only the first 100 (here RateLimit) reach the reservation engine, so at
\* most that many codes are stored for the user at one clock reading.
C24_RateLimit == \A u \in Users : Cardinality(CodesNow(u)) <= RateLimit

\* C25: panic containment.  A request whose handler raised a fault is
\* answered with a status (500): no request that entered a handler is left
\* without one.
C25_PanicContainment == last.op # "none" => last.status # 0

\* C26: the UserCounter of (s, u) changes only in the step in which a
\* purchase, having consumed a code stored for (s, u), increments it: by
\* exactly 1, and with the 200 response; and a purchase is answered 200
\* only in such a step.  No step of a checkout, of the clock or of the
\* rotator changes a count.
C26_UserCounterFrame ==
    [][/\ \A s \in SaleIds, u \in Users :
            userPurchases'[s][u] # userPurchases[s][u] =>
                \E p \in Procs :
                    /\ req[p].pc = "pu_inc" /\ req'[p].pc = "idle"
                    /\ req[p].code \in Issued
                    /\ ~codeStore[req[p].code].present
                    /\ codeFor[req[p].code].sale = s
                    /\ codeFor[req[p].code].user = u
                    /\ userPurchases'[s][u] = userPurchases[s][u] + 1
                    /\ last'.op = "purchase" /\ last'.status = 200
       /\ (last' # last /\ last'.op = "purchase" /\ last'.status = 200) =>
            \E p \in Procs :
                /\ req[p].pc = "pu_inc" /\ req'[p].pc = "idle"
                /\ ~codeStore[req[p].code].present
                /\ userPurchases'[req[p].sale][req[p].user]
                        = userPurchases[req[p].sale][req[p].user] + 1]_vars

\* a purchase of a code of the sale before the rotation was answered 200:
\* the count of that sale is 1 and the counts of the current sale are 0
C26_Witness ==
    /\ Answered("purchase", 200) /\ last.sale = 1 /\ active # 1
    /\ userPurchases[1]["alice"] = 1
    /\ \A u \in Users : userPurchases[active][u] = 0

C28_InitializeBeforePublish ==
    \A p \in Procs :
        (req[p].pc = "co_script" /\ req[p].sale = active)
        => inventory[active].present /\ saleActive[active].present

\* the integer an item id ends in after its last "_item_", 0 when there is
\* no delimiter or what follows the last one is not an integer >= 1
SeqOf(item) ==
    LET parts == Split(item)
        suffix == parts[Len(parts)]
    IN  IF Len(parts) >= 2 /\ AtoiOk(suffix) /\ Atoi(suffix) >= 1
        THEN Atoi(suffix)
        ELSE 0

\* the codes a purchase was answered 200 for and whose finalizer is past
\* its MarkItemAsSold
Marked == {c \in Issued : okByCode[c] = 1 /\
                           \A w \in workers : w.code = c => w.pc # "mark"}

\* C29: sold-bitmap index.  Once the finalizer of a successful purchase is
\* past MarkItemAsSold, bit seq - 1 of the sale's bitmap is set, seq >= 1
\* being the integer after the last "_item_" of the item id.
C29_SoldBitmapIndex ==
    \A c \in Marked :
        SeqOf(codeFor[c].item) >= 1
        => (SeqOf(codeFor[c].item) - 1) \in soldBitmap[codeFor[c].sale]

\* the codes of sale s a purchase was answered 200 for
Bought(s) == {c \in Issued : okByCode[c] = 1 /\ codeFor[c].sale = s}

\* C30: a purchase whose item id has no parsable sequence number succeeds.
\* It is answered 200 with the user's count incremented and the finalizer
\* started; when the finalizers are done there is a purchases row for
\* every successful purchase; and the bitmap has no bit but those of the
\* purchased ids the finalizer can parse.
C30_UnparsableItem ==
    /\ (Answered("purchase", 200) /\ SoldBitOffset(last.item) < 0) =>
            /\ userPurchases[last.sale][last.user] >= 1
            /\ \E w \in workers : w.code = last.code /\ w.pc = "mark"
    /\ workers = {} =>
            \A s \in SaleIds : dbPurchases[s] = Cardinality(Bought(s))
    /\ \A s \in SaleIds :
            soldBitmap[s] \subseteq
                {SoldBitOffset(codeFor[c].item) : c \in Bought(s)} \ {-1}

\* the purchases of an id without delimiter and of one with a suffix that
\* is no number are complete: two rows, both counts at 1, no bit
C30_Witness ==
    /\ workers = {} /\ okByCode[1] = 1 /\ okByCode[2] = 1
    /\ {codeFor[1].item, codeFor[2].item} = {ItemBare, ItemWord}
    /\ dbPurchases[1] = 2 /\ soldBitmap[1] = {}
    /\ \A u \in Users : userPurchases[1][u] = 1

\* C31: sale window.  No checkout is granted a reservation against a sale
\* after the sale's end_time (start_time + 1h): the script takes no unit for
\* it and no checkout is answered with a code for it past that time, also
\* while a rotation is in progress and after a rotation tick that failed.
C31_SaleWindow ==
    /\ \A p \in Procs :
            req[p].pc = "co_set"
            => req[p].exp - CodeTTL <= ActiveSale(req[p].sale).EndTime
    /\ Answered("checkout", 200) => now <= ActiveSale(last.sale).EndTime

\* the keys and rows of every sale but A are left as they are
OthersKept(A) ==
    \A s \in SaleIds \ {A} :
        /\ inventory'[s] = inventory[s]
        /\ userPurchases'[s] = userPurchases[s]
        /\ soldBitmap'[s] = soldBitmap[s]
        /\ dbPurchases'[s] = dbPurchases[s]

\* C32: cross-sale isolation.  A purchase of a code issued under sale A
\* increments A's UserCounter only and answers with A, and its finalizer
\* sets A's bit and writes A's row, whatever sale is current by then: no
\* step of the purchase or of its finalizer changes a key or a row of
\* another sale.  A checkout reserves against the sale it read from the
\* current-sale pointer, also when the swap comes before its script.
C32_CrossSaleIsolation ==
    [][/\ \A p \in Procs :
            (req[p].op = "purchase" /\ InFlight(p) /\ req'[p] # req[p]) =>
                LET A == codeFor[req[p].code].sale
                    u == codeFor[req[p].code].user
                IN  /\ OthersKept(A)
                    /\ (last'.status = 200 /\ last' # last) =>
                            /\ last'.sale = A
                            /\ userPurchases'[A][u] = userPurchases[A][u] + 1
                            /\ \E w \in workers' \ workers :
                                    w.sale = A /\ w.code = req[p].code
       /\ \A w \in workers \ workers' :
            LET A == codeFor[w.code].sale
            IN  /\ OthersKept(A)
                /\ w.pc = "mark" =>
                        soldBitmap'[A] = soldBitmap[A] \cup {SoldBitOffset(w.item)}
                /\ w.pc = "log" => dbPurchases'[A] = dbPurchases[A] + 1
       /\ \A p \in Procs :
            /\ (req[p].pc = "idle" /\ req'[p].op = "checkout" /\ InFlight(p)')
                    => req'[p].sale = active
            /\ (req[p].op = "checkout" /\ InFlight(p) /\ req'[p] # req[p]) =>
                    LET A == req[p].sale
                    IN  /\ OthersKept(A)
                        /\ InFlight(p)' => req'[p].sale = A
                        /\ (last'.status = 200 /\ last' # last) =>
                                /\ codeFor'[last'.code].sale = A
                                /\ codeStore'[last'.code].sale = A]_vars

\* a code of sale 1 was purchased after the rotation to sale 3 and its
\* finalizer is done: sale 1 has the count, the bit and the row, sale 3 is
\* as InitializeSale left it
C32_Witness ==
    /\ active = 3 /\ workers = {}
    /\ \E c \in Issued : okByCode[c] = 1 /\ codeFor[c].sale = 1
    /\ userPurchases[1]["alice"] = 1 /\ soldBitmap[1] = {0}
    /\ dbPurchases[1] = 1
    /\ inventory[3].present /\ inventory[3].val = TotalItems
    /\ userPurchases[3]["alice"] = 0 /\ soldBitmap[3] = {}
    /\ dbPurchases[3] = 0

\* C33: checkout-attempt status.  While no call of the durable store fails,
\* once the attempt loggers and the finalizers have finished every issued
\* code has its checkout_attempts row, and the row's status is true exactly
\* when a purchase of the code was answered 200, whatever the order of the
\* insert and the update.
C33_AttemptStatus ==
    (workers = {} /\ loggers = {}) =>
        \A c \in Issued :
            /\ dbAttempts[c] # "none"
            /\ dbAttempts[c] = "true" <=> okByCode[c] = 1

\* the .sql files of the directory in the order of their names
SortedSql == SortStrings(SelectSql(MigrationDir))

\* C34: migrations.  Over any number of RunMigrations invocations a file's
\* statements are committed at most once and in the lexicographic order of
\* the file names; the statements of a file are committed exactly when its
\* version row is; and a file is applied only when every file before it is,
\* so a failing file stops the run before any later file.
C34_Migrations ==
    /\ \A i, j \in 1..Len(appliedFiles) :
            i < j => NameLess(appliedFiles[i], appliedFiles[j])
    /\ schemaMigrations =
            {TrimSuffix(appliedFiles[i]) : i \in 1..Len(appliedFiles)}
    /\ appliedFiles = SubSeq(SortedSql, 1, Len(appliedFiles))
    /\ \A i \in 1..Len(appliedFiles) : appliedFiles[i].ext = "sql"
    /\ migrator.err => migrator.pc = "idle" /\ migrator.tx = NoTx

\* the second invocation has skipped the file the first one applied and
\* has failed in the next file: one file is applied, once, and the later
\* files are not
C34_Witness ==
    /\ migrator.runs = 2 /\ migrator.err /\ migrator.pc = "idle"
    /\ Len(migrator.queue) = 3
    /\ appliedFiles = <<File(<<1>>, "sql")>>
    /\ schemaMigrations = {<<1>>}

\* the requests of handler o that are in flight
Running(o) == Cardinality({p \in Procs : InFlight(p) /\ req[p].op = o})

\* C35: metrics accounting.  Every request of an endpoint is counted once as
\* a request and, when its handler returns, once as a success or as a
\* failure: the requests are the successes, the failures and the requests in
\* flight, so with none in flight checkout_requests = checkout_success +
\* checkout_failed and purchase_requests = purchase_success +
\* purchase_failed; total_items_sold = purchase_success; and
\* sold_out_errors + user_limit_errors <= checkout_failed.
C35_MetricsAccounting ==
    /\ metrics.CheckoutRequests =
            metrics.CheckoutSuccess + metrics.CheckoutFailed
                + Running("checkout")
    /\ metrics.PurchaseRequests =
            metrics.PurchaseSuccess + metrics.PurchaseFailed
                + Running("purchase")
    /\ metrics.TotalItemsSold = metrics.PurchaseSuccess
    /\ metrics.SoldOutErrors + metrics.UserLimitErrors
            <= metrics.CheckoutFailed

\* no request is in flight after a checkout that got a code, one that was
\* refused for the user limit, a purchase that succeeded and one that was
\* refused
C35_Witness ==
    /\ \A p \in Procs : ~InFlight(p)
    /\ metrics.CheckoutRequests = 2 /\ metrics.CheckoutSuccess = 1
    /\ metrics.UserLimitErrors = 1 /\ metrics.CheckoutFailed = 1
    /\ metrics.PurchaseRequests = 2 /\ metrics.PurchaseSuccess = 1
    /\ metrics.PurchaseFailed = 1 /\ metrics.CodeInvalidErrors = 1

====
